---- MODULE Spec2Model ----
(***************************************************************************)
(* A model of the `planning` crate: the Action and Goal capability traits, *)
(* the planner `plan` (A* over nodes (state, incoming action)) and the     *)
(* Agent orchestrator (new, plan_constant, plan_dynamic, plan_all,         *)
(* plan_profit).                                                           *)
(*                                                                         *)
(* User types are the ones the crate's own doc tests define (State of      *)
(* plan.rs, the picnic, work/eat and sell agents of agent.rs) plus a small *)
(* graph world whose actions are weighted edges, used to enumerate inputs. *)
(* A state is a record; the fields it has play the role of the            *)
(* Rust type parameter S that selects the trait implementation.            *)
(*                                                                         *)
(* Option<T> is a sequence of length at most one: None is <<>>.            *)
(***************************************************************************)
EXTENDS Integers, Sequences, FiniteSets, TLC

VARIABLES state, actions, goals, given, op, res, search

vars == <<state, actions, goals, given, op, res, search>>

None == <<>>
Some(x) == <<x>>
IsSome(o) == o /= <<>>
Unwrap(o) == o[1]

(***************************************************************************)
(* Bounds of the enumerated inputs.                                        *)
(***************************************************************************)
MaxActs == 3
MaxGoals == 3
MaxPlace == 2
MaxCoord == 2

(***************************************************************************)
(* The defaults of the traits' provided methods.                           *)
(***************************************************************************)
DefaultCost == 1
DefaultHeuristic == 0
DefaultPriority == 0

----------------------------------------------------------------------------
(* The state types.                                                        *)

IsCorrectState(s) == "is_correct" \in DOMAIN s
IsPicnicState(s) == "picnic_set" \in DOMAIN s
IsWorkState(s) == "has_worked" \in DOMAIN s
IsSellState(s) == "apple_sold" \in DOMAIN s
IsGraphState(s) == "at" \in DOMAIN s
IsWoodState(s) == "has_wood" \in DOMAIN s

\* the woodcutter's positions are pairs <<x, y>>
Abs(n) == IF n < 0 THEN -n ELSE n

manhattan_distance(a, b) == Abs(a[1] - b[1]) + Abs(a[2] - b[2])

----------------------------------------------------------------------------
(* trait Action<S>                                                         *)

is_applicable(action, s) ==
    CASE IsCorrectState(s) -> ~s.is_correct
      [] IsPicnicState(s) ->
            (CASE action = "PickFlower" -> s.num_flowers < 5
               [] action = "SetPicnic" -> ~s.picnic_set
               [] action = "Eat" -> s.hungry /\ s.picnic_set)
      [] IsWorkState(s) -> TRUE
      [] IsSellState(s) -> ~(s.apple_sold \/ s.banana_sold)
      [] IsGraphState(s) -> s.at = action.src
      [] IsWoodState(s) ->
            (CASE action = "ChopTree" -> s.has_axe /\ s.position = s.nearest_tree
               [] action = "GrabAxe" -> ~s.has_axe /\ s.position = s.nearest_axe
               [] action = "BuildHouse" -> s.has_wood /\ s.position = <<0, 0>>
               [] action = "GoToTree" -> s.position /= s.nearest_tree
               [] action = "GoToAxe" -> s.position /= s.nearest_axe
               [] action = "GoHome" -> s.position /= <<0, 0>>)

apply_mut(action, s) ==
    CASE IsCorrectState(s) -> [s EXCEPT !.is_correct = TRUE]
      [] IsPicnicState(s) ->
            (CASE action = "PickFlower" -> [s EXCEPT !.num_flowers = @ + 1]
               [] action = "SetPicnic" -> [s EXCEPT !.picnic_set = TRUE]
               [] action = "Eat" -> [s EXCEPT !.hungry = FALSE])
      [] IsWorkState(s) ->
            (CASE action = "Work" -> [s EXCEPT !.has_worked = TRUE]
               [] action = "Eat" -> [s EXCEPT !.hungry = FALSE])
      [] IsSellState(s) ->
            (CASE action = "SellApple" -> [s EXCEPT !.apple_sold = TRUE]
               [] action = "SellBanana" -> [s EXCEPT !.banana_sold = TRUE])
      [] IsGraphState(s) -> [s EXCEPT !.at = action.dst]
      [] IsWoodState(s) ->
            (CASE action = "ChopTree" -> [s EXCEPT !.has_wood = TRUE]
               [] action = "GrabAxe" -> [s EXCEPT !.has_axe = TRUE]
               [] action = "BuildHouse" -> [s EXCEPT !.house_built = TRUE]
               [] action = "GoToTree" -> [s EXCEPT !.position = s.nearest_tree]
               [] action = "GoToAxe" -> [s EXCEPT !.position = s.nearest_axe]
               [] action = "GoHome" -> [s EXCEPT !.position = <<0, 0>>])

\* clone, then mutate the clone: the argument is a value and stays as it is
apply(action, s) ==
    LET new_state == s
    IN  apply_mut(action, new_state)

\* the provided method, as when an implementation does not override it
cost_default(action, s) == DefaultCost

cost(action, s) ==
    CASE IsSellState(s) ->
            (CASE action = "SellApple" -> 4
               [] action = "SellBanana" -> 1)
      [] IsGraphState(s) -> action.c
      [] IsWoodState(s) ->
            (CASE action = "GoToTree" -> manhattan_distance(s.position, s.nearest_tree)
               [] action = "GoToAxe" -> manhattan_distance(s.position, s.nearest_axe)
               [] action = "GoHome" -> manhattan_distance(s.position, <<0, 0>>)
               [] OTHER -> 1)
      [] OTHER -> DefaultCost

----------------------------------------------------------------------------
(* trait Goal<S>                                                           *)

is_satisfied(goal, s) ==
    CASE IsCorrectState(s) -> s.is_correct
      [] IsPicnicState(s) ->
            (CASE goal = "BouquetMade" -> s.num_flowers >= 5
               [] goal = "Eaten" -> ~s.hungry)
      [] IsWorkState(s) ->
            (CASE goal = "Worked" -> s.has_worked
               [] goal = "Eaten" -> ~s.hungry)
      [] IsSellState(s) ->
            (CASE goal = "SellApple" -> s.apple_sold
               [] goal = "SellBanana" -> s.banana_sold)
      [] IsGraphState(s) -> s.at = goal.target
      [] IsWoodState(s) -> s.house_built

heuristic(goal, s) ==
    CASE IsGraphState(s) -> IF s.at = goal.hs THEN goal.hv ELSE DefaultHeuristic
      [] IsWoodState(s) ->
            (IF ~s.has_axe THEN manhattan_distance(s.position, s.nearest_axe) ELSE 0)
            + (IF ~s.has_wood THEN manhattan_distance(s.nearest_axe, s.nearest_tree) ELSE 0)
            + (IF ~s.house_built THEN manhattan_distance(s.nearest_tree, <<0, 0>>) ELSE 0)
      [] OTHER -> DefaultHeuristic

priority(goal, s) ==
    CASE IsPicnicState(s) ->
            (CASE goal = "BouquetMade" -> 1
               [] goal = "Eaten" -> IF s.hungry THEN 2 ELSE 0)
      [] IsWorkState(s) ->
            (CASE goal = "Worked" -> 1
               [] goal = "Eaten" -> IF s.hungry THEN 2 ELSE 0)
      [] IsSellState(s) ->
            (CASE goal = "SellApple" -> 5
               [] goal = "SellBanana" -> 4)
      [] IsGraphState(s) -> IF s.at = goal.target THEN DefaultPriority ELSE goal.p
      [] OTHER -> DefaultPriority

----------------------------------------------------------------------------
(* PlanNode: (state, Option<&A>), equal when both fields are equal.        *)

PlanNode(s, a) == [state |-> s, action |-> a]

\* an equality that looks at the incoming action only
node_eq_by_action(a, b) == a.action = b.action

\* #[derive(PartialEq, Eq)]: both fields are compared
node_eq(a, b) == a.state = b.state /\ a.action = b.action

\* a child that keeps the parent's state
child_stale(node, action) == PlanNode(node.state, Some(action))

child(node, action) == PlanNode(apply(action, node.state), Some(action))

RECURSIVE childrenFrom(_, _, _)
childrenFrom(node, acts, i) ==
    IF i > Len(acts) THEN <<>>
    ELSE IF is_applicable(acts[i], node.state)
         THEN <<[node |-> child(node, acts[i]), cost |-> cost(acts[i], node.state)]>>
              \o childrenFrom(node, acts, i + 1)
         ELSE childrenFrom(node, acts, i + 1)

\* children without the applicability filter
children_unfiltered(node, acts) ==
    [i \in 1..Len(acts) |->
        [node |-> child(node, acts[i]), cost |-> cost(acts[i], node.state)]]

\* children that weigh every edge 1 instead of asking the action
children_unit(node, acts) ==
    LET cs == childrenFrom(node, acts, 1)
    IN  [i \in 1..Len(cs) |-> [node |-> cs[i].node, cost |-> 1]]

\* children in the reverse of the actions' order (iter().rev())
children_reversed(node, acts) ==
    LET cs == childrenFrom(node, acts, 1)
    IN  [i \in 1..Len(cs) |-> cs[Len(cs) + 1 - i]]

\* children that stop at the first applicable action (find for filter)
children_first_only(node, acts) ==
    LET cs == childrenFrom(node, acts, 1)
    IN  IF cs = <<>> THEN <<>> ELSE <<cs[1]>>

children(node, acts) == childrenFrom(node, acts, 1)

\* the three closures plan hands to astar
successors(node, acts) == children(node, acts)

estimate(goal, node) == heuristic(goal, node.state)

\* a goal test that never accepts the root
success_after_root(goal, node) == IsSome(node.action) /\ is_satisfied(goal, node.state)

success(goal, node) == is_satisfied(goal, node.state)

----------------------------------------------------------------------------
(* The open set of astar: std's BinaryHeap of SmallestCostHolder, a max-   *)
(* heap under an order that puts the smallest estimated cost on top and,   *)
(* among equal estimates, the largest cost. Positions are 0-based as in    *)
(* the heap's code; element at position p is data[p + 1].                  *)

\* SmallestCostHolder::cmp(x, y) /= Greater
HolderLe(x, y) ==
    IF x.estimated_cost = y.estimated_cost
    THEN x.cost <= y.cost
    ELSE x.estimated_cost > y.estimated_cost

RECURSIVE sift_up(_, _, _, _)
sift_up(data, start, pos, elt) ==
    IF pos > start
    THEN LET parent == (pos - 1) \div 2
         IN  IF HolderLe(elt, data[parent + 1])
             THEN [data EXCEPT ![pos + 1] = elt]
             ELSE sift_up([data EXCEPT ![pos + 1] = data[parent + 1]], start, parent, elt)
    ELSE [data EXCEPT ![pos + 1] = elt]

heap_push(data, elt) == sift_up(Append(data, elt), 0, Len(data), elt)

RECURSIVE sift_down_to_bottom(_, _, _, _)
sift_down_to_bottom(data, pos, end, elt) ==
    LET c == 2 * pos + 1
    IN  IF end >= 2 /\ c <= end - 2
        THEN LET k == IF HolderLe(data[c + 1], data[c + 2]) THEN c + 1 ELSE c
             IN  sift_down_to_bottom([data EXCEPT ![pos + 1] = data[k + 1]], k, end, elt)
        ELSE IF c = end - 1
             THEN sift_up([data EXCEPT ![pos + 1] = data[c + 1]], 0, c, elt)
             ELSE sift_up(data, 0, pos, elt)

\* BinaryHeap::pop on a non-empty heap: [item, data]
heap_pop(data) ==
    LET last == data[Len(data)]
        rest == SubSeq(data, 1, Len(data) - 1)
    IN  IF rest = <<>>
        THEN [item |-> last, data |-> rest]
        ELSE [item |-> data[1],
              data |-> sift_down_to_bottom(rest, 0, Len(rest), last)]

----------------------------------------------------------------------------
(* astar(start, successors, heuristic, success) as plan calls it.          *)
(* parents is the insertion-ordered map node -> (parent index, cost); its  *)
(* entries are [node, parent, cost] and parent 0 stands for usize::MAX.    *)

IndexOf(parents, node) ==
    IF \E i \in 1..Len(parents) : node_eq(parents[i].node, node)
    THEN CHOOSE i \in 1..Len(parents) : node_eq(parents[i].node, node)
    ELSE 0

RECURSIVE reverse_path(_, _)
reverse_path(parents, index) ==
    IF index = 0 THEN <<>>
    ELSE Append(reverse_path(parents, parents[index].parent), parents[index].node)

\* the body of the `for (successor, move_cost) in successors` loop
RECURSIVE relax(_, _, _, _, _)
relax(srch, succs, i, index, cost_) ==
    IF i > Len(succs) THEN srch
    ELSE LET successor == succs[i].node
             new_cost == cost_ + succs[i].cost
             e == IndexOf(srch.parents, successor)
             h == estimate(srch.goal, successor)
         IN  IF e = 0
             THEN relax([srch EXCEPT
                            !.parents = Append(@, [node |-> successor, parent |-> index,
                                                   cost |-> new_cost]),
                            !.to_see = heap_push(@, [estimated_cost |-> new_cost + h,
                                                     cost |-> new_cost,
                                                     index |-> Len(srch.parents) + 1])],
                        succs, i + 1, index, cost_)
             ELSE IF srch.parents[e].cost > new_cost
                  THEN relax([srch EXCEPT
                                 !.parents[e] = [node |-> successor, parent |-> index,
                                                 cost |-> new_cost],
                                 !.to_see = heap_push(@, [estimated_cost |-> new_cost + h,
                                                          cost |-> new_cost,
                                                          index |-> e])],
                             succs, i + 1, index, cost_)
                  ELSE relax(srch, succs, i + 1, index, cost_)

astar_init(start, acts, goal) ==
    [parents |-> <<[node |-> start, parent |-> 0, cost |-> 0]>>,
     to_see |-> <<[estimated_cost |-> 0, cost |-> 0, index |-> 1]>>,
     acts |-> acts, goal |-> goal, done |-> FALSE, result |-> None]

\* one iteration of `while let Some(..) = to_see.pop()`
astar_step(srch) ==
    IF srch.to_see = <<>>
    THEN [srch EXCEPT !.done = TRUE, !.result = None]
    ELSE LET popped == heap_pop(srch.to_see)
             cost_ == popped.item.cost
             index == popped.item.index
             node == srch.parents[index].node
             c == srch.parents[index].cost
             s1 == [srch EXCEPT !.to_see = popped.data]
         IN  IF success(srch.goal, node)
             THEN [s1 EXCEPT !.done = TRUE,
                             !.result = Some([path |-> reverse_path(srch.parents, index),
                                              cost |-> cost_])]
             ELSE IF cost_ > c
                  THEN s1
                  ELSE relax(s1, successors(node, srch.acts), 1, index, cost_)

RECURSIVE astar_run(_)
astar_run(srch) == IF srch.done THEN srch ELSE astar_run(astar_step(srch))

astar(start, acts, goal) == astar_run(astar_init(start, acts, goal)).result

\* path.iter().filter_map(|node| node.action).cloned().collect()
RECURSIVE filter_map_action(_)
filter_map_action(path) ==
    IF path = <<>> THEN <<>>
    ELSE path[1].action \o filter_map_action(Tail(path))

\* .map(|(path, cost)| (path.iter().filter_map(..).cloned().collect(), cost))
map_found(found) ==
    IF IsSome(found)
    THEN Some([path |-> filter_map_action(Unwrap(found).path),
               cost |-> Unwrap(found).cost])
    ELSE None

\* a plan of no actions taken for no plan
plan_nonempty(initial_state, acts, goal) ==
    LET initial == PlanNode(initial_state, None)
        found == map_found(astar(initial, acts, goal))
    IN  IF IsSome(found) /\ Unwrap(found).path = <<>> THEN None ELSE found

plan(initial_state, acts, goal) ==
    LET initial == PlanNode(initial_state, None)
    IN  map_found(astar(initial, acts, goal))

----------------------------------------------------------------------------
(* Agent: (state, actions, goals).                                         *)

\* a comparator that also moves a goal past its equals
sort_less_or_equal(a, b, s) == priority(b, s) <= priority(a, s)

\* a comparator with its operands the other way round
sort_less_ascending(a, b, s) == priority(a, s) < priority(b, s)

\* the comparator of sort_goals says Less: a goes before b

sort_less(a, b, s) == priority(b, s) < priority(a, s)

\* slice::sort_by on a short slice: each element in turn is moved left past
\* the elements it is less than
RECURSIVE insert_tail(_, _, _)
insert_tail(sorted, g, s) ==
    IF sorted = <<>> THEN <<g>>
    ELSE LET last == sorted[Len(sorted)]
         IN  IF sort_less(g, last, s)
             THEN Append(insert_tail(SubSeq(sorted, 1, Len(sorted) - 1), g, s), last)
             ELSE Append(sorted, g)

RECURSIVE sort_goals_upto(_, _, _)
sort_goals_upto(gs, n, s) ==
    IF n = 0 THEN <<>> ELSE insert_tail(sort_goals_upto(gs, n - 1, s), gs[n], s)

\* a sort through a map keyed by priority: of the goals of one priority only
\* the first is kept
sort_goals_keyed(gs, s) ==
    LET sorted == sort_goals_upto(gs, Len(gs), s)
        FirstOfPriority(g) ==
            \A i, j \in 1..Len(sorted) :
                (sorted[j] = g /\ priority(sorted[i], s) = priority(g, s)) => j <= i
    IN  SelectSeq(sorted, FirstOfPriority)

\* a sort that does not keep equal goals in order: it leaves them reversed
sort_goals_unstable(gs, s) ==
    sort_goals_upto([i \in 1..Len(gs) |-> gs[Len(gs) + 1 - i]], Len(gs), s)

sort_goals(gs, s) == sort_goals_upto(gs, Len(gs), s)

\* plan(..).map(|(path, cost)| (goal, path, cost))
plan_for(s, acts, g) ==
    LET found == plan(s, acts, g)
    IN  IF IsSome(found)
        THEN Some([goal |-> g, path |-> Unwrap(found).path, cost |-> Unwrap(found).cost])
        ELSE None

RECURSIVE find_map_plan(_, _, _, _)
find_map_plan(s, acts, gs, i) ==
    IF i > Len(gs) THEN None
    ELSE LET r == plan_for(s, acts, gs[i])
         IN  IF IsSome(r) THEN r ELSE find_map_plan(s, acts, gs, i + 1)

\* a find_map that gives up at the first goal that cannot be planned
plan_constant_first_only(s, acts, gs) ==
    IF gs = <<>> THEN None ELSE plan_for(s, acts, gs[1])

plan_constant(s, acts, gs) == find_map_plan(s, acts, gs, 1)

RECURSIVE filter_map_plan(_, _, _, _)
filter_map_plan(s, acts, gs, i) ==
    IF i > Len(gs) THEN <<>>
    ELSE plan_for(s, acts, gs[i]) \o filter_map_plan(s, acts, gs, i + 1)

RECURSIVE take_while_plan(_, _, _, _)
take_while_plan(s, acts, gs, i) ==
    IF i > Len(gs) THEN <<>>
    ELSE LET r == plan_for(s, acts, gs[i])
         IN  IF IsSome(r) THEN r \o take_while_plan(s, acts, gs, i + 1) ELSE <<>>

\* a plan_all that stops collecting at the first failure
plan_all_until_failure(s, acts, gs) == take_while_plan(s, acts, gs, 1)

\* a failure of one goal fails the whole collection
plan_all_or_nothing(s, acts, gs) ==
    IF \E i \in 1..Len(gs) : plan(s, acts, gs[i]) = None THEN <<>>
    ELSE filter_map_plan(s, acts, gs, 1)

plan_all(s, acts, gs) == filter_map_plan(s, acts, gs, 1)

\* a key that ranks by priority alone
profit_ignoring_cost(entry, s) == priority(entry.goal, s)

\* i32: priorities, costs and their difference are 32-bit signed integers
I32Max == 2147483647
I32Min == -I32Max - 1

\* a - b leaves the range of i32
sub_overflows(a, b) ==
    IF b >= 0 THEN a < I32Min + b ELSE a > I32Max + b

\* a - b as a build without overflow checks computes it: modulo 2^32
wrapping_sub(a, b) ==
    IF ~sub_overflows(a, b) THEN a - b
    ELSE IF b >= 0 THEN I32Max - ((b - (a - I32Min)) - 1)
         ELSE I32Min + ((a - (I32Max + b)) - 1)

\* the key of max_by_key: goal.priority(&self.state) - cost
profit(entry, s) == wrapping_sub(priority(entry.goal, s), entry.cost)

\* Iterator::max_by_key: a fold that keeps the later of two equal maxima
RECURSIVE max_by_key_from(_, _, _, _)
max_by_key_from(entries, i, best, s) ==
    IF i > Len(entries) THEN best
    ELSE max_by_key_from(entries, i + 1,
                         IF profit(best, s) > profit(entries[i], s)
                         THEN best ELSE entries[i],
                         s)

RECURSIVE max_by_key_first_from(_, _, _, _)
max_by_key_first_from(entries, i, best, s) ==
    IF i > Len(entries) THEN best
    ELSE max_by_key_first_from(entries, i + 1,
                               IF profit(best, s) >= profit(entries[i], s)
                               THEN best ELSE entries[i],
                               s)

\* a maximum that keeps the earlier of two equal maxima
max_by_key_first(entries, s) ==
    IF entries = <<>> THEN None
    ELSE Some(max_by_key_first_from(entries, 2, entries[1], s))

max_by_key(entries, s) ==
    IF entries = <<>> THEN None
    ELSE Some(max_by_key_from(entries, 2, entries[1], s))

plan_profit(s, acts, gs) == max_by_key(plan_all(s, acts, gs), s)

\* what a build with overflow checks does when a key overflows
Panic == <<"panicked", "attempt to subtract with overflow">>

\* the outcomes of plan_profit over the builds: the subtraction wraps, or
\* (overflow checks on) the call panics when some key overflows
plan_profit_outcomes(s, acts, gs) ==
    LET all == plan_all(s, acts, gs)
    IN  {plan_profit(s, acts, gs)}
        \cup (IF \E k \in 1..Len(all) :
                     sub_overflows(priority(all[k].goal, s), all[k].cost)
              THEN {Panic} ELSE {})

----------------------------------------------------------------------------
(* An exhaustive shortest-path oracle over the states reachable from a     *)
(* start state: Bellman-Ford on the state graph, independent of astar.     *)

ApplicableIdx(s, acts) == {i \in 1..Len(acts) : is_applicable(acts[i], s)}

Succs(s, acts) == {apply(acts[i], s) : i \in ApplicableIdx(s, acts)}

RECURSIVE ReachClosure(_, _, _)
ReachClosure(frontier, seen, acts) ==
    IF frontier = {} THEN seen
    ELSE LET new == (UNION {Succs(s, acts) : s \in frontier}) \ seen
         IN  ReachClosure(new, seen \cup new, acts)

Reachable(s0, acts) == ReachClosure({s0}, {s0}, acts)

SetMin(S) == CHOOSE x \in S : \A y \in S : x <= y

\* D[s] is the least cost known of reaching the goal from s, or -1 when no
\* way is known
Candidates(D, s, acts) ==
    {cost(acts[i], s) + D[apply(acts[i], s)] :
        i \in {j \in ApplicableIdx(s, acts) : D[apply(acts[j], s)] >= 0}}
    \cup (IF D[s] >= 0 THEN {D[s]} ELSE {})

Best(D, s, acts) ==
    LET cand == Candidates(D, s, acts)
    IN  IF cand = {} THEN -1 ELSE SetMin(cand)

\* one round of relaxation, tabulated state by state over S
RECURSIVE RelaxAll(_, _, _)
RelaxAll(S, D, acts) ==
    IF S = {} THEN <<>>
    ELSE LET s == CHOOSE x \in S : TRUE
         IN  (s :> Best(D, s, acts)) @@ RelaxAll(S \ {s}, D, acts)

RECURSIVE BellmanFord(_, _, _)
BellmanFord(D, acts, n) ==
    IF n = 0 THEN D ELSE BellmanFord(RelaxAll(DOMAIN D, D, acts), acts, n - 1)

RECURSIVE GoalStates(_, _)
GoalStates(S, goal) ==
    IF S = {} THEN <<>>
    ELSE LET s == CHOOSE x \in S : TRUE
         IN  (s :> IF is_satisfied(goal, s) THEN 0 ELSE -1) @@ GoalStates(S \ {s}, goal)

\* for every state reachable from s0: the least cost of reaching the goal
Distances(s0, acts, goal) ==
    LET R == Reachable(s0, acts)
    IN  BellmanFord(GoalStates(R, goal), acts, Cardinality(R) - 1)

CanReach(s0, acts, goal) == Distances(s0, acts, goal)[s0] >= 0

MinCost(s0, acts, goal) == Distances(s0, acts, goal)[s0]

Admissible(s0, acts, goal) ==
    LET D == Distances(s0, acts, goal)
    IN  \A s \in DOMAIN D : D[s] >= 0 => heuristic(goal, s) <= D[s]

----------------------------------------------------------------------------
(* The inputs the planner is run on: the user types of the doc tests, and  *)
(* a graph world. A graph state is a place; an action is an edge           *)
(* [src, dst, c], applicable at src, leading to dst, free or at the        *)
(* default cost; a goal is [target, hs, hv, p]: satisfied at target, with  *)
(* heuristic hv at place hs and the default elsewhere, and priority p      *)
(* until it is satisfied.                                                  *)

Places == 0..MaxPlace

Edges == {e \in [src : Places, dst : Places, c : {0, DefaultCost}] : e.src /= e.dst}

GraphInitial == [at |-> 0]

\* goals as the planner sees them: the default heuristic, or an estimate of
\* one default cost at one place
GraphPlanGoals ==
    [target : Places, hs : Places, hv : {DefaultCost}, p : {DefaultPriority}]
    \cup [target : Places, hs : {0}, hv : {DefaultHeuristic}, p : {DefaultPriority}]

CorrectStates == [is_correct : BOOLEAN]

PicnicInitial == [num_flowers |-> 0, hungry |-> TRUE, picnic_set |-> FALSE]

WorkInitial == [has_worked |-> FALSE, hungry |-> FALSE]

SellInitial == [banana_sold |-> FALSE, apple_sold |-> FALSE]

\* the values of the action type that goes with a state type
ActionsOf(s) ==
    CASE IsCorrectState(s) -> {"MakeCorrect"}
      [] IsPicnicState(s) -> {"PickFlower", "SetPicnic", "Eat"}
      [] IsWorkState(s) -> {"Work", "Eat"}
      [] IsSellState(s) -> {"SellApple", "SellBanana"}
      [] IsGraphState(s) -> Edges

GoalsOf(s) ==
    CASE IsCorrectState(s) -> {"IsCorrect"}
      [] IsPicnicState(s) -> {"BouquetMade", "Eaten"}
      [] IsWorkState(s) -> {"Worked", "Eaten"}
      [] IsSellState(s) -> {"SellApple", "SellBanana"}
      [] IsGraphState(s) -> GraphPlanGoals

\* Places are named in the order the edges mention them: an edge leaves a
\* place the start or an earlier edge has named, and enters one of those or
\* the next unnamed place. This leaves out only relabelings of the places.
Named(acts) == {0} \cup {acts[i].src : i \in 1..Len(acts)}
                   \cup {acts[i].dst : i \in 1..Len(acts)}

Pushable(s, acts) ==
    IF IsGraphState(s)
    THEN {e \in Edges : e.src \in Named(acts) /\ e.dst <= Cardinality(Named(acts))}
    ELSE ActionsOf(s)

PlanInputStates ==
    {GraphInitial, PicnicInitial, WorkInitial, SellInitial} \cup CorrectStates

InitPlan ==
    /\ state \in PlanInputStates
    /\ actions = <<>>
    /\ \E g \in GoalsOf(state) : goals = <<g>>
    /\ given = goals
    /\ op = "init"
    /\ res = None
    /\ search = None

\* actions.push(a)
Push ==
    /\ op /= "search"
    /\ Len(actions) < MaxActs
    /\ \E a \in Pushable(state, actions) : actions' = Append(actions, a)
    /\ op' = "push"
    /\ res' = None
    /\ search' = None
    /\ UNCHANGED <<state, goals, given>>

\* let result = plan(&initial_state, &actions, &goal)
Plan ==
    /\ op /= "plan"
    /\ res' = plan(state, actions, goals[1])
    /\ op' = "plan"
    /\ UNCHANGED <<state, actions, goals, given, search>>

NextPlan == Push \/ Plan

SpecPlan == InitPlan /\ [][NextPlan]_vars

\* The same call taken one iteration of astar's loop at a time: search holds
\* astar's locals (to_see, parents) while the call runs and what it ended
\* with afterwards.
Start ==
    /\ op \in {"init", "push"}
    /\ search' = Some(astar_init(PlanNode(state, None), actions, goals[1]))
    /\ op' = "search"
    /\ res' = None
    /\ UNCHANGED <<state, actions, goals, given>>

Step ==
    /\ op = "search"
    /\ LET after == astar_step(Unwrap(search))
       IN  /\ search' = Some(after)
           /\ op' = IF after.done THEN "done" ELSE "search"
           /\ res' = IF after.done THEN map_found(after.result) ELSE None
    /\ UNCHANGED <<state, actions, goals, given>>

NextSearch == Push \/ Start \/ Step

\* The loop is straight-line code: an iteration that can run does run.
\* This is weak fairness of Step, with ENABLED <<Step>>_vars written out as
\* op = "search" (an iteration always changes to_see or ends the loop).
FairStep == []<>(op /= "search") \/ []<><<Step>>_vars

SpecSearch == InitPlan /\ [][NextSearch]_vars /\ FairStep

----------------------------------------------------------------------------
(* The agents: those of the doc tests of agent.rs, and one of the graph    *)
(* world whose actions lead from each place to the next.                   *)

PicnicActions == <<"PickFlower", "SetPicnic", "Eat">>

WorkActions == <<"Work", "Eat">>

SellActions == <<"SellApple", "SellBanana">>

Chain == [i \in 1..MaxPlace |-> [src |-> i - 1, dst |-> i, c |-> DefaultCost]]

GraphAgentGoals ==
    [target : Places, hs : {0}, hv : {DefaultHeuristic}, p : {DefaultPriority, 1}]

AgentGoalsOf(s) == IF IsGraphState(s) THEN GraphAgentGoals ELSE GoalsOf(s)

AgentActionsOf(s) ==
    CASE IsPicnicState(s) -> PicnicActions
      [] IsWorkState(s) -> WorkActions
      [] IsSellState(s) -> SellActions
      [] IsGraphState(s) -> Chain

\* goals of one agent differ in what satisfies them
GoalKey(g, s) == IF IsGraphState(s) THEN g.target ELSE g

RECURSIVE GoalSeqs(_, _)
GoalSeqs(s, n) ==
    IF n = 0 THEN {<<>>}
    ELSE LET shorter == GoalSeqs(s, n - 1)
             Fresh(q) == {g \in AgentGoalsOf(s) :
                             \A i \in 1..Len(q) : GoalKey(q[i], s) /= GoalKey(g, s)}
         IN  shorter \cup UNION {{Append(q, g) : g \in Fresh(q)} : q \in shorter}

\* agent.state.<field> = value
Mutations(s) ==
    CASE IsPicnicState(s) -> {[s EXCEPT !.hungry = b] : b \in BOOLEAN}
      [] IsWorkState(s) -> {[s EXCEPT !.hungry = b] : b \in BOOLEAN}
      [] IsSellState(s) -> {[s EXCEPT !.apple_sold = b] : b \in BOOLEAN}
                           \cup {[s EXCEPT !.banana_sold = b] : b \in BOOLEAN}
      [] IsGraphState(s) -> {[s EXCEPT !.at = n] : n \in Places}

\* Agent::new(state, actions, goals)
Init ==
    /\ state \in {PicnicInitial, WorkInitial, SellInitial, GraphInitial}
    /\ actions = AgentActionsOf(state)
    /\ given \in GoalSeqs(state, MaxGoals)
    /\ goals = sort_goals(given, state)
    /\ op = "new"
    /\ res = None
    /\ search = None

\* a second agent from the goals first given, or from the stored ones
New ==
    /\ \E input \in {given, goals} :
          /\ given' = input
          /\ goals' = sort_goals(input, state)
    /\ op' = "new"
    /\ res' = None
    /\ UNCHANGED <<state, actions, search>>

Mutate ==
    /\ \E s \in Mutations(state) \ {state} : state' = s
    /\ op' = "mutate"
    /\ res' = None
    /\ UNCHANGED <<actions, goals, given, search>>

PlanConstant ==
    /\ res' = plan_constant(state, actions, goals)
    /\ op' = "plan_constant"
    /\ UNCHANGED <<state, actions, goals, given, search>>

PlanDynamic ==
    /\ goals' = sort_goals(goals, state)
    /\ res' = plan_constant(state, actions, goals')
    /\ op' = "plan_dynamic"
    /\ UNCHANGED <<state, actions, given, search>>

PlanAll ==
    /\ res' = plan_all(state, actions, goals)
    /\ op' = "plan_all"
    /\ UNCHANGED <<state, actions, goals, given, search>>

PlanProfit ==
    /\ res' \in plan_profit_outcomes(state, actions, goals)
    /\ op' = "plan_profit"
    /\ UNCHANGED <<state, actions, goals, given, search>>

Next == New \/ Mutate \/ PlanConstant \/ PlanDynamic \/ PlanAll \/ PlanProfit

Spec == Init /\ [][Next]_vars

\* Agents whose priorities and costs lie at the ends of i32: two places one
\* action away from the start, each the target of at most one goal.
PrioritySamples == {I32Min, I32Min + 1, -1, DefaultPriority, 1, I32Max}

CostSamples == {DefaultCost, 2, I32Max}

ProfitActions ==
    {<<[src |-> 0, dst |-> 1, c |-> c1], [src |-> 0, dst |-> 2, c |-> c2]>> :
        c1 \in CostSamples, c2 \in CostSamples}

ProfitGoals ==
    [target : {1, 2}, hs : {0}, hv : {DefaultHeuristic}, p : PrioritySamples]

ProfitGoalSeqs ==
    {<<>>} \cup {<<g>> : g \in ProfitGoals}
           \cup {q \in {<<g, h>> : g \in ProfitGoals, h \in ProfitGoals} :
                    q[1].target /= q[2].target}

InitProfit ==
    /\ state = GraphInitial
    /\ actions \in ProfitActions
    /\ given \in ProfitGoalSeqs
    /\ goals = sort_goals(given, state)
    /\ op = "new"
    /\ res = None
    /\ search = None

NextProfit == PlanAll \/ PlanProfit

SpecProfit == InitProfit /\ [][NextProfit]_vars

----------------------------------------------------------------------------
(* Properties of plan.                                                     *)

Planned == op = "plan"

planGoal == goals[1]

\* s0 = state, si = ai.apply(s(i-1)): every ai is one of the actions and is
\* applicable in s(i-1); c accumulates ai.cost(s(i-1))
RECURSIVE Replay(_, _, _, _)
Replay(s, path, acts, c) ==
    IF path = <<>> THEN [valid |-> TRUE, final |-> s, cost |-> c]
    ELSE IF (\E j \in 1..Len(acts) : acts[j] = Head(path)) /\ is_applicable(Head(path), s)
         THEN Replay(apply(Head(path), s), Tail(path), acts, c + cost(Head(path), s))
         ELSE [valid |-> FALSE, final |-> s, cost |-> c]

\* what the Action and Goal contracts ask of the user: costs and heuristic
\* are not negative, and the heuristic never exceeds the true remaining cost
ContractKept(D, acts, g) ==
    \A s \in DOMAIN D :
        /\ heuristic(g, s) >= 0
        /\ \A i \in ApplicableIdx(s, acts) : cost(acts[i], s) >= 0
        /\ D[s] >= 0 => heuristic(g, s) <= D[s]

\* C1: when plan returns Some((path, c)) for inputs with non-negative costs
\* and an admissible non-negative heuristic, no applicable action sequence
\* from the initial state to a satisfying state costs less than c (the
\* cheapest such sequence is found by the Bellman-Ford oracle).
C1_Optimal ==
    (Planned /\ IsSome(res)) =>
        LET D == Distances(state, actions, planGoal)
        IN  ContractKept(D, actions, planGoal) =>
                ~(D[state] >= 0 /\ D[state] < Unwrap(res).cost)

\* the planner preferred a cheaper detour to a direct edge
C1_Witness ==
    /\ Planned /\ IsSome(res) /\ IsGraphState(state)
    /\ ContractKept(Distances(state, actions, planGoal), actions, planGoal)
    /\ Len(Unwrap(res).path) >= 2
    /\ \E i \in 1..Len(actions) :
          /\ actions[i].src = state.at /\ actions[i].dst = planGoal.target
          /\ actions[i].c > Unwrap(res).cost

\* C2: a returned plan replays from the initial state: each action is a
\* member of the actions and applicable where it is applied, the final state
\* satisfies the goal, and the cost is the sum of the actions' costs, each
\* taken in the state before the action.
C2_Valid ==
    (Planned /\ IsSome(res)) =>
        LET r == Replay(state, Unwrap(res).path, actions, 0)
        IN  /\ r.valid
            /\ is_satisfied(planGoal, r.final)
            /\ r.cost = Unwrap(res).cost

C2_Witness ==
    /\ Planned /\ IsSome(res)
    /\ Len(Unwrap(res).path) >= 2
    /\ Unwrap(res).cost >= 1
    /\ \E i \in 1..Len(actions) : ~is_applicable(actions[i], state)

\* C3: plan returns None exactly when no satisfying state can be reached
\* from the initial state; in particular when no action is applicable and
\* the initial state does not satisfy the goal.
C3_NoneIffUnreachable ==
    Planned =>
        /\ res = None <=> ~CanReach(state, actions, planGoal)
        /\ (ApplicableIdx(state, actions) = {} /\ ~is_satisfied(planGoal, state))
               => res = None

\* None although some actions can be applied
C3_Witness ==
    /\ Planned /\ res = None
    /\ ApplicableIdx(state, actions) /= {}
    /\ Cardinality(Reachable(state, actions)) >= 2

\* C4: when the initial state satisfies the goal, plan returns the empty
\* sequence with cost 0, whatever the actions and the heuristic; this is
\* Some, not the None of unreachability.
C4_Satisfied ==
    (Planned /\ is_satisfied(planGoal, state)) =>
        /\ res = Some([path |-> <<>>, cost |-> 0])
        /\ res /= None

C4_Witness ==
    /\ Planned /\ is_satisfied(planGoal, state)
    /\ ApplicableIdx(state, actions) /= {}
    /\ heuristic(planGoal, state) > 0
    /\ IsSome(res)

----------------------------------------------------------------------------
(* Properties of the Agent.                                                *)

Injections(n) == {pi \in [1..n -> 1..n] : \A i, j \in 1..n : pi[i] = pi[j] => i = j}

\* out is inp rearranged into descending priority under s, with goals of
\* equal priority in the order they have in inp
StableSorted(out, inp, s) ==
    /\ Len(out) = Len(inp)
    /\ \E pi \in Injections(Len(inp)) :
          /\ \A i \in 1..Len(inp) : out[i] = inp[pi[i]]
          /\ \A i, j \in 1..Len(inp) :
                i < j => \/ priority(out[i], s) > priority(out[j], s)
                         \/ priority(out[i], s) = priority(out[j], s) /\ pi[i] < pi[j]

Plannable(s, acts, gs) == {i \in 1..Len(gs) : plan(s, acts, gs[i]) /= None}

Entry(s, acts, g) ==
    [goal |-> g, path |-> Unwrap(plan(s, acts, g)).path,
     cost |-> Unwrap(plan(s, acts, g)).cost]

\* r is the entry of the first goal of gs that can be planned, None if none can
FirstPlannable(r, s, acts, gs) ==
    LET ok == Plannable(s, acts, gs)
    IN  IF ok = {} THEN r = None
        ELSE r = Some(Entry(s, acts, gs[SetMin(ok)]))

Contains(gs, g) == \E i \in 1..Len(gs) : gs[i] = g

Chosen == Unwrap(res).goal

\* C5: Agent::new stores the goals given, sorted by priority under the
\* initial state in descending order, goals of equal priority keeping the
\* order they were given in (so the stored order is a function of the input).
C5_NewSortsStably == op = "new" => StableSorted(goals, given, state)

\* the sort moved a goal, and two different goals tie
C5_Witness ==
    /\ op = "new" /\ goals /= given
    /\ \E i, j \in 1..Len(given) :
          i < j /\ given[i] /= given[j]
                /\ priority(given[i], state) = priority(given[j], state)

\* C6: plan_constant leaves the stored order as it is and returns the entry
\* of the first stored goal that plan succeeds for, skipping those it fails
\* for; this is the first entry of plan_all.
C6_PlanConstant ==
    [][op' = "plan_constant" =>
          /\ goals' = goals
          /\ FirstPlannable(res', state, actions, goals)
          /\ LET all == plan_all(state, actions, goals)
             IN  res' = IF all = <<>> THEN None ELSE Some(all[1])]_vars

\* a goal was skipped, and the stored order is not the one the current
\* priorities give
C6_Witness ==
    /\ op = "plan_constant" /\ IsSome(res)
    /\ Chosen /= goals[1]
    /\ goals /= sort_goals(goals, state)

PicnicFed == [PicnicInitial EXCEPT !.hungry = FALSE]

\* C7: plan_dynamic re-sorts the stored goals stably by descending priority
\* under the current state and returns what plan_constant returns on that
\* order: a plannable goal of the highest priority among the plannable ones,
\* the earliest such in the order before the call. The doc tests' outcomes
\* follow: Worked while not hungry and Eaten when hungry; Eaten by
\* [SetPicnic, Eat] while hungry and BouquetMade by five PickFlower once fed.
C7_PlanDynamic ==
    [][op' = "plan_dynamic" =>
          /\ StableSorted(goals', goals, state)
          /\ FirstPlannable(res', state, actions, goals')
          /\ res' = plan_constant(state, actions, goals')
          /\ LET ok == Plannable(state, actions, goals)
                 top == {i \in ok : \A j \in ok :
                            priority(goals[i], state) >= priority(goals[j], state)}
             IN  IsSome(res') => Unwrap(res').goal = goals[SetMin(top)]
          /\ (IsWorkState(state) /\ Contains(goals, "Worked") /\ Contains(goals, "Eaten")
                /\ ~state.has_worked)
               => Unwrap(res').goal = IF state.hungry THEN "Eaten" ELSE "Worked"
          /\ (state = PicnicInitial /\ Contains(goals, "Eaten"))
               => res' = Some([goal |-> "Eaten", path |-> <<"SetPicnic", "Eat">>,
                               cost |-> 2])
          /\ (state = PicnicFed /\ Len(goals) = 2)
               => res' = Some([goal |-> "BouquetMade",
                               path |-> [i \in 1..5 |-> "PickFlower"], cost |-> 5])
      ]_vars

\* after hungry was cleared, the order changed and the bouquet is planned
C7_Witness ==
    /\ op = "plan_dynamic" /\ state = PicnicFed
    /\ given = <<"BouquetMade", "Eaten">>
    /\ goals = <<"BouquetMade", "Eaten">>
    /\ IsSome(res) /\ Chosen = "BouquetMade" /\ Len(Unwrap(res).path) = 5

\* C8: plan_profit returns an entry of plan_all whose priority under the
\* current state minus its cost is at least that of every entry of plan_all
\* (None when there is none); the stored order does not rank: SellBanana
\* (4 - 1) wins over SellApple (5 - 4), which plan_dynamic chooses.
C8_PlanProfit ==
    /\ op = "plan_profit" =>
          LET all == plan_all(state, actions, goals)
          IN  /\ all = <<>> => res = None
              /\ all /= <<>> =>
                    /\ IsSome(res)
                    /\ \E i \in 1..Len(all) : all[i] = Unwrap(res)
                    /\ \A j \in 1..Len(all) :
                          priority(Chosen, state) - Unwrap(res).cost >=
                              priority(all[j].goal, state) - all[j].cost
              /\ (state = SellInitial /\ Len(goals) = 2) =>
                    res = Some([goal |-> "SellBanana", path |-> <<"SellBanana">>,
                                cost |-> 1])
    /\ (op = "plan_dynamic" /\ state = SellInitial /\ Len(goals) = 2) =>
          res = Some([goal |-> "SellApple", path |-> <<"SellApple">>, cost |-> 4])

C8_Witness ==
    /\ op = "plan_profit" /\ state = SellInitial
    /\ goals = <<"SellApple", "SellBanana">>
    /\ IsSome(res) /\ Chosen = "SellBanana"

\* the entries of plan_all whose profit is the greatest
MostProfitable(all, s) ==
    {i \in 1..Len(all) : \A j \in 1..Len(all) :
        priority(all[i].goal, s) - all[i].cost >= priority(all[j].goal, s) - all[j].cost}

\* C9 as claimed: among the entries of plan_all of the greatest profit,
\* plan_profit returns the first.
C9_FirstOnTie ==
    (op = "plan_profit" /\ IsSome(res)) =>
        LET all == plan_all(state, actions, goals)
        IN  res = Some(all[SetMin(MostProfitable(all, state))])

\* C9 as amended: among the entries of plan_all of the greatest profit,
\* plan_profit returns the last.
C9_LastOnTie ==
    (op = "plan_profit" /\ IsSome(res)) =>
        LET all == plan_all(state, actions, goals)
            top == MostProfitable(all, state)
        IN  res = Some(all[CHOOSE i \in top : \A j \in top : j <= i])

\* two or more entries tie for the greatest profit
C9_Witness ==
    /\ op = "plan_profit" /\ IsSome(res)
    /\ Cardinality(MostProfitable(plan_all(state, actions, goals), state)) >= 2

\* the k-th smallest member of a set of numbers
Nth(S, k) == CHOOSE i \in S : Cardinality({j \in S : j < i}) = k - 1

\* C10: plan_all returns, in the stored order, one entry for each goal that
\* plan succeeds for, with the path and cost plan returns, and nothing else;
\* a goal has an entry exactly when planning it alone succeeds, at the same
\* cost.
C10_PlanAll ==
    op = "plan_all" =>
        LET ok == Plannable(state, actions, goals)
        IN  /\ Len(res) = Cardinality(ok)
            /\ \A k \in 1..Len(res) : res[k] = Entry(state, actions, goals[Nth(ok, k)])
            /\ \A i \in 1..Len(goals) :
                  LET alone == plan_constant(state, actions, <<goals[i]>>)
                      mine == {k \in 1..Len(res) : res[k].goal = goals[i]}
                  IN  /\ mine /= {} <=> IsSome(alone)
                      /\ \A k \in mine : res[k].cost = Unwrap(alone).cost

\* a goal that fails stands between two that succeed
C10_Witness ==
    /\ op = "plan_all" /\ Len(res) >= 2
    /\ \E i, j, k \in 1..Len(goals) :
          /\ i < j /\ j < k
          /\ j \notin Plannable(state, actions, goals)
          /\ {i, k} \subseteq Plannable(state, actions, goals)

\* the stored goals that plan succeeds for, in stored order
PlannableGoals(s, acts, gs) ==
    LET Succeeds(g) == plan(s, acts, g) /= None
    IN  SelectSeq(gs, Succeeds)

\* C11: a goal that plan fails for is skipped and changes no result: each
\* operation returns what it returns on the stored goals without the failing
\* ones; when no goal can be planned (none stored, or all unreachable)
\* plan_constant, plan_dynamic and plan_profit return None and plan_all
\* returns the empty list.
C11_FailuresSkipped ==
    LET kept == PlannableGoals(state, actions, goals)
    IN  /\ op \in {"plan_constant", "plan_dynamic"} =>
              /\ res = plan_constant(state, actions, kept)
              /\ kept = <<>> => res = None
        /\ op = "plan_profit" =>
              /\ res = plan_profit(state, actions, kept)
              /\ kept = <<>> => res = None
        /\ op = "plan_all" =>
              /\ res = plan_all(state, actions, kept)
              /\ kept = <<>> => res = <<>>

\* goals are stored and none can be planned
C11_Witness ==
    /\ op = "plan_profit" /\ Len(goals) >= 2
    /\ PlannableGoals(state, actions, goals) = <<>>
    /\ res = None

\* C12: plan_dynamic called again with nothing changed in between returns
\* the same goal, plan and cost, and leaves the stored goals in the order
\* the first call left them in.
C12_PlanDynamicIdempotent ==
    op = "plan_dynamic" =>
        LET again == sort_goals(goals, state)
        IN  /\ again = goals
            /\ plan_constant(state, actions, again) = res

\* the first call moved a goal, found a plan, and two stored goals tie
C12_Witness ==
    /\ op = "plan_dynamic" /\ IsSome(res) /\ goals /= given
    /\ \E i, j \in 1..Len(goals) :
          i < j /\ priority(goals[i], state) = priority(goals[j], state)

Count(seq, x) == Cardinality({i \in 1..Len(seq) : seq[i] = x})

IsPermutation(a, b) ==
    /\ Len(a) = Len(b)
    /\ \A i \in 1..Len(b) : Count(a, b[i]) = Count(b, b[i])

\* C13: plan_constant, plan_all and plan_profit leave state, actions and
\* goals (with their order) as they were; plan_dynamic leaves state and
\* actions as they were and the goals a permutation of what they were; no
\* step of the agent changes the actions sequence.
C13_Frame ==
    [][/\ op' \in {"plan_constant", "plan_all", "plan_profit"} =>
             state' = state /\ actions' = actions /\ goals' = goals
       /\ op' = "plan_dynamic" =>
             state' = state /\ actions' = actions /\ IsPermutation(goals', goals)
       /\ actions' = actions]_vars

\* plan_dynamic rearranged three or more goals of an agent with several actions
C13_Witness ==
    /\ op = "plan_dynamic" /\ Len(goals) >= 3 /\ Len(actions) >= 2
    /\ goals /= given /\ goals /= sort_goals(given, GraphInitial)

----------------------------------------------------------------------------
(* The woodcutter of tests/tests.rs: the planner is run on the states the  *)
(* woodcutter can get to, for the test's positions of tree and axe and     *)
(* for every other pair of positions of the grid.                          *)

Grid == (0..MaxCoord) \X (0..MaxCoord)

WoodInitial ==
    [has_wood |-> FALSE, has_axe |-> FALSE, house_built |-> FALSE,
     position |-> <<0, 0>>, nearest_tree |-> <<1, 1>>, nearest_axe |-> <<2, 2>>]

WoodActions == <<"ChopTree", "GrabAxe", "BuildHouse", "GoToTree", "GoToAxe", "GoHome">>

WoodInitials ==
    {[WoodInitial EXCEPT !.nearest_tree = t, !.nearest_axe = a] : t \in Grid, a \in Grid}

InitWood ==
    /\ state \in WoodInitials
    /\ actions = WoodActions
    /\ goals = <<"MyGoal">>
    /\ given = goals
    /\ op = "init"
    /\ res = None
    /\ search = None

\* the woodcutter does one of its actions: state = action.apply(&state)
Apply ==
    /\ \E i \in 1..Len(actions) :
          /\ is_applicable(actions[i], state)
          /\ state' = apply(actions[i], state)
    /\ op' = "apply"
    /\ res' = None
    /\ UNCHANGED <<actions, goals, given, search>>

NextWood == Apply \/ Plan

SpecWood == InitWood /\ [][NextWood]_vars

\* the fixture of the test: tree at (1,1), axe at (2,2)
TestFixture == state.nearest_tree = <<1, 1>> /\ state.nearest_axe = <<2, 2>>

\* C14: from the woodcutter's initial state, with the six actions in the
\* test's order and the test's heuristic, plan returns [GoToAxe, GrabAxe,
\* GoToTree, ChopTree, GoHome, BuildHouse] with cost 11.
C14_Woodcutter ==
    (op = "plan" /\ state = WoodInitial /\ actions = WoodActions) =>
        res = Some([path |-> <<"GoToAxe", "GrabAxe", "GoToTree", "ChopTree",
                               "GoHome", "BuildHouse">>,
                    cost |-> 11])

C14_Witness ==
    /\ op = "plan" /\ state = WoodInitial /\ actions = WoodActions
    /\ IsSome(res) /\ Len(Unwrap(res).path) = 6

\* C18: at every state the woodcutter of the test can get to, the
\* heuristic of the test's goal does not exceed the least cost of getting
\* from that state to a state with the house built.
C18_WoodAdmissible ==
    (IsWoodState(state) /\ TestFixture /\ CanReach(state, actions, goals[1])) =>
        heuristic(goals[1], state) <= MinCost(state, actions, goals[1])

----------------------------------------------------------------------------
(* Properties of the search.                                               *)

\* A* in its standard formulation, the best-known cost g kept per state:
\* the open state of least g + h is taken; a successor is (re)opened when
\* it is new or reached at a strictly lower g.
RECURSIVE relax_by_state(_, _, _, _, _, _)
relax_by_state(open, g, n, acts, goal, i) ==
    IF i > Len(acts) THEN [open |-> open, g |-> g]
    ELSE IF ~is_applicable(acts[i], n) THEN relax_by_state(open, g, n, acts, goal, i + 1)
    ELSE LET t == apply(acts[i], n)
             new_cost == g[n] + cost(acts[i], n)
         IN  IF t \notin DOMAIN g
             THEN relax_by_state(open \cup {t}, g @@ (t :> new_cost), n, acts, goal, i + 1)
             ELSE IF new_cost < g[t]
                  THEN relax_by_state(open \cup {t}, (t :> new_cost) @@ g, n, acts, goal, i + 1)
                  ELSE relax_by_state(open, g, n, acts, goal, i + 1)

RECURSIVE astar_by_state_from(_, _, _, _)
astar_by_state_from(open, g, acts, goal) ==
    IF open = {} THEN None
    ELSE LET n == CHOOSE s \in open :
                      \A t \in open : g[s] + heuristic(goal, s) <= g[t] + heuristic(goal, t)
         IN  IF is_satisfied(goal, n) THEN Some(g[n])
             ELSE LET r == relax_by_state(open \ {n}, g, n, acts, goal, 1)
                  IN  astar_by_state_from(r.open, r.g, acts, goal)

astar_by_state(s0, acts, goal) == astar_by_state_from({s0}, s0 :> 0, acts, goal)

Parents == Unwrap(search).parents

\* C15: the best-known-cost map of the search is keyed on the pair (state,
\* incoming action): no pair has two entries, while one state may have
\* several; and when the heuristic is admissible (costs are non-negative)
\* the call returns Some or None exactly as A* keyed on the state alone
\* does, with the same total cost.
C15_NodeIdentity ==
    /\ op \in {"search", "done"} =>
          \A i, j \in 1..Len(Parents) :
              (Parents[i].node.state = Parents[j].node.state
                 /\ Parents[i].node.action = Parents[j].node.action) => i = j
    /\ (op = "done" /\ Admissible(state, actions, planGoal)) =>
          LET ref == astar_by_state(state, actions, planGoal)
          IN  /\ res = None <=> ref = None
              /\ IsSome(res) => Unwrap(res).cost = Unwrap(ref)

\* a finished search under an admissible, somewhere positive heuristic that
\* holds one state under two incoming actions
C15_Witness ==
    /\ op = "done" /\ IsSome(res) /\ Admissible(state, actions, planGoal)
    /\ \E s \in Reachable(state, actions) : heuristic(planGoal, s) > 0
    /\ \E i, j \in 1..Len(Parents) :
          /\ i /= j
          /\ Parents[i].node.state = Parents[j].node.state
          /\ Parents[i].node.action /= Parents[j].node.action

\* C16: on the finite state graphs of the inputs, zero-cost actions and
\* cycles included, a call of plan that has started returns: with Some when
\* a node satisfying the goal was popped, with None when the open set ran
\* empty, which (there being no cap on depth or nodes) happens only after
\* every reachable state was entered in the search.
C16_Terminates ==
    /\ (op = "search") ~> (op = "done")
    /\ [](op = "done" =>
            LET s == Unwrap(search)
            IN  /\ IsSome(res) =>
                      LET path == Unwrap(s.result).path
                      IN  is_satisfied(planGoal, path[Len(path)].state)
                /\ res = None =>
                      /\ s.to_see = <<>>
                      /\ \A r \in Reachable(state, actions) :
                            \E i \in 1..Len(s.parents) : s.parents[i].node.state = r)

\* a finished search over a cycle of two zero-cost actions through the start
C16_Witness ==
    /\ op = "done" /\ IsGraphState(state) /\ Len(Parents) >= 3
    /\ \E i, j \in 1..Len(actions) :
          /\ actions[i].src = state.at /\ actions[i].dst = actions[j].src
          /\ actions[j].dst = state.at
          /\ actions[i].c = 0 /\ actions[j].c = 0

ApplicableAt(s) == {k \in 1..Len(actions) : is_applicable(actions[k], s)}

\* C17: for every node n the search holds, the successors of n are, in the
\* order of the actions, one (a.apply(n.state), a) with weight
\* a.cost(n.state) for exactly the actions a applicable in n.state; and
\* every node the search has generated is the result of applying its
\* incoming action to the state its parent still holds, in which that
\* action is applicable.
C17_Successors ==
    op \in {"search", "done"} =>
        /\ \A i \in 1..Len(Parents) :
              LET n == Parents[i].node
                  app == ApplicableAt(n.state)
                  succs == successors(n, actions)
              IN  /\ Len(succs) = Cardinality(app)
                  /\ \A k \in 1..Len(succs) :
                        LET a == actions[Nth(app, k)]
                        IN  /\ succs[k].node.state = apply_mut(a, n.state)
                            /\ succs[k].node.action = Some(a)
                            /\ succs[k].cost = cost(a, n.state)
        /\ \A j \in 1..Len(Parents) :
              Parents[j].parent > 0 =>
                  LET from == Parents[Parents[j].parent].node.state
                      a == Unwrap(Parents[j].node.action)
                  IN  /\ is_applicable(a, from)
                      /\ Parents[j].node.state = apply_mut(a, from)
                      /\ \E k \in 1..Len(actions) : actions[k] = a

\* the search holds a node at which two actions apply and one does not
C17_Witness ==
    /\ op = "search" /\ Len(Parents) >= 3
    /\ \E i \in 1..Len(Parents) :
          /\ Cardinality(ApplicableAt(Parents[i].node.state)) >= 2
          /\ Cardinality(ApplicableAt(Parents[i].node.state)) < Len(actions)
          /\ Parents[i].parent > 0

----------------------------------------------------------------------------
(* Further properties of the Agent.                                        *)

Done(g) == [goal |-> g, path |-> <<>>, cost |-> 0]

\* C19: a goal the agent's state satisfies is plannable, by the empty plan
\* at cost 0: when the first stored goal (after plan_dynamic, the goal of
\* highest current priority) is satisfied, plan_constant and plan_dynamic
\* return it so and no later goal; plan_all holds such an entry for every
\* satisfied goal; and plan_profit returns an entry whose profit is at
\* least the priority of every satisfied goal.
C19_SatisfiedPlannable ==
    /\ (op \in {"plan_constant", "plan_dynamic"} /\ goals /= <<>>
          /\ is_satisfied(goals[1], state)) => res = Some(Done(goals[1]))
    /\ op = "plan_all" =>
          \A i \in 1..Len(goals) :
              is_satisfied(goals[i], state) =>
                  \E k \in 1..Len(res) : res[k] = Done(goals[i])
    /\ op = "plan_profit" =>
          \A i \in 1..Len(goals) :
              is_satisfied(goals[i], state) =>
                  /\ IsSome(res)
                  /\ priority(Chosen, state) - Unwrap(res).cost
                        >= priority(goals[i], state)

\* the first stored goal is satisfied and returned while a later one has a
\* plan of some actions
C19_Witness ==
    /\ op = "plan_constant" /\ Len(goals) >= 2
    /\ is_satisfied(goals[1], state) /\ res = Some(Done(goals[1]))
    /\ \E i \in 2..Len(goals) :
          /\ plan(state, actions, goals[i]) /= None
          /\ Unwrap(plan(state, actions, goals[i])).cost > 0

\* the profit of an entry as a number, kept in two parts so that it can be
\* compared where it lies below the range of i32: <<0, d>> is d, and
\* <<-1, d>> (d < 0) is I32Min + d
TrueProfit(entry, s) ==
    LET p == priority(entry.goal, s)
    IN  IF p >= I32Min + entry.cost THEN <<0, p - entry.cost>>
        ELSE <<-1, (p - I32Min) - entry.cost>>

TrueGe(x, y) == x[1] > y[1] \/ (x[1] = y[1] /\ x[2] >= y[2])

\* C20: for every 32-bit priority and every non-negative 32-bit cost the
\* key plan_profit computes is the difference priority - cost itself, no
\* overflow occurring, so the entry returned is one of greatest profit.
C20_ProfitExact ==
    op = "plan_profit" =>
        LET all == plan_all(state, actions, goals)
        IN  /\ res /= Panic
            /\ \A k \in 1..Len(all) :
                  /\ all[k].cost >= 0
                  /\ priority(all[k].goal, state) >= I32Min + all[k].cost
                  /\ profit(all[k], state) = priority(all[k].goal, state) - all[k].cost
            /\ IsSome(res) =>
                  \A k \in 1..Len(all) :
                      TrueGe(TrueProfit(Unwrap(res), state), TrueProfit(all[k], state))

====
